---- MODULE Spec2Model ----
(***************************************************************************)
(* Identity registry pallet (pallets/custom-pallet/src/lib.rs): the two    *)
(* storage maps Identities and Verifications, the event log, and the three *)
(* dispatchables create_or_update_identity, verify_identity and            *)
(* revoke_identity.                                                        *)
(*                                                                         *)
(* A dispatchable is an operator from the current storage and its          *)
(* arguments to an outcome: the DispatchResult together with the storage   *)
(* and event log it leaves behind.  A step of the system dispatches one    *)
(* call and installs its outcome; `result` holds the DispatchResult of the *)
(* dispatch that produced the current state.                               *)
(***************************************************************************)
EXTENDS Integers, Sequences, FiniteSets, TLC

\* ---- bounds of the model ----
\* The event log is append-only; a dispatch that would make it longer than
\* MaxEvents is not taken.
MaxEvents == 3
\* Inputs range over byte strings up to Overflow bytes above each limit.
Overflow == 1

\* ---- runtime configuration (Config trait constants) ----
MaxNameLength == 2
MaxEmailLength == 3
MaxDocHashLength == 4

Accounts == {"alice", "bob"}

\* Vec<u8> inputs are prefixes of a sample byte string per field
\* ("Alice", "a@x.com", "deadbeef" as ASCII)
SampleName == <<65, 108, 105, 99, 101>>
SampleEmail == <<97, 64, 120, 46, 99, 111, 109>>
SampleDocHash == <<100, 101, 97, 100, 98, 101, 101, 102>>
\* the prefixes whose length is exactly the limit or up to Overflow above it
AtOrAbove(sample, limit) == {SubSeq(sample, 1, k) : k \in limit..(limit + Overflow)}

\* the (name, email, document_hash) arguments of create_or_update_identity:
\* every combination of fields at and above their limits, and all fields empty
CreateArgs == (AtOrAbove(SampleName, MaxNameLength)
                 \X AtOrAbove(SampleEmail, MaxEmailLength)
                 \X AtOrAbove(SampleDocHash, MaxDocHashLength))
              \cup {<< <<>>, <<>>, <<>> >>}

\* OriginFor<T>: a signed origin carries the account, Root does not.
Signed(who) == [kind |-> "Signed", who |-> who]
Origins == {Signed(a) : a \in Accounts} \cup {[kind |-> "Root"]}

VARIABLES Identities, Verifications, events, result
vars == <<Identities, Verifications, events, result>>

\* ---- Event enum ----
IdentityCreated(who) == [event |-> "IdentityCreated", args |-> <<who>>]
IdentityVerified(validator, target) == [event |-> "IdentityVerified", args |-> <<validator, target>>]
IdentityRevoked(who) == [event |-> "IdentityRevoked", args |-> <<who>>]

\* ---- library operations used by the dispatchables ----
\* Option<T>: None is the empty sequence, Some(x) the one-element sequence
None == <<>>
Some(x) == <<x>>

\* ensure_signed(origin)?: the account of a signed origin, BadOrigin otherwise
ensure_signed(origin) == IF origin.kind = "Signed" THEN [ok |-> TRUE, val |-> origin.who]
                         ELSE [ok |-> FALSE, err |-> "BadOrigin"]

\* faulty variant: an over-long input is cut down to the bound
try_from_Truncates(v, bound) ==
    [ok |-> TRUE, val |-> SubSeq(v, 1, IF Len(v) <= bound THEN Len(v) ELSE bound)]

\* BoundedVec::<u8, S>::try_from(v): v itself when it fits the bound, Err otherwise
\* faulty variant: the bound is compared one byte too high
try_from_OffByOne(v, bound) == IF Len(v) <= bound + 1 THEN [ok |-> TRUE, val |-> v]
                               ELSE [ok |-> FALSE]

try_from(v, bound) == IF Len(v) <= bound THEN [ok |-> TRUE, val |-> v]
                      ELSE [ok |-> FALSE]

\* StorageMap / StorageDoubleMap with OptionQuery, held as a partial function
contains_key(map, key) == key \in DOMAIN map
get(map, key) == IF key \in DOMAIN map THEN Some(map[key]) ELSE None
insert(map, key, value) == [k \in (DOMAIN map) \cup {key} |-> IF k = key THEN value ELSE map[k]]
remove(map, key) == [k \in (DOMAIN map) \ {key} |-> map[k]]
\* mutate(key, f) stores the Option that f leaves behind: new = f(get(key))
mutate(map, key, new) == IF new = None THEN remove(map, key) ELSE insert(map, key, new[1])

\* deposit_event appends to the event log
deposit_event(ev) == Append(events, ev)

\* struct IdentityInfo as built by create_or_update_identity
IdentityInfo(bounded_name, bounded_email, bounded_doc_hash) ==
    [name |-> bounded_name, email |-> bounded_email,
     document_hash |-> bounded_doc_hash, revoked |-> FALSE]

\* IdentityInfo::default() with the revoked flag set
DefaultRevoked == [name |-> <<>>, email |-> <<>>, document_hash |-> <<>>, revoked |-> TRUE]

\* faulty variant: None is replaced by a default record marked revoked
revoke_closure_InsertsWhenAbsent(identity) ==
    IF identity # None THEN Some([identity[1] EXCEPT !.revoked = TRUE])
    ELSE Some(DefaultRevoked)

\* faulty variant: the record is overwritten instead of flagged in place
revoke_closure_ReplacesRecord(identity) ==
    IF identity # None THEN Some(DefaultRevoked) ELSE identity

\* faulty variant: the record is taken out of storage
revoke_closure_RemovesRecord(identity) == None

\* faulty variant: the flag is flipped instead of set
revoke_closure_Toggles(identity) ==
    IF identity # None THEN Some([identity[1] EXCEPT !.revoked = ~identity[1].revoked])
    ELSE identity

\* the closure passed to Identities::mutate in revoke_identity: sets the flag
\* of Some(id) and leaves None as it is
revoke_closure(identity) ==
    IF identity # None THEN Some([identity[1] EXCEPT !.revoked = TRUE]) ELSE identity

\* ---- outcomes of a dispatch ----
\* Ok(()) with the storage and event log the call leaves behind
Ok(ids, vers, evs) ==
    [result |-> "Ok", Identities |-> ids, Verifications |-> vers, events |-> evs]
\* an early return Err(e): nothing has been written or deposited yet
Err(e) ==
    [result |-> e, Identities |-> Identities, Verifications |-> Verifications, events |-> events]

\* the current storage and event log, and an early return Err(e) from a
\* dispatch on a given storage st
Storage == [Identities |-> Identities, Verifications |-> Verifications, events |-> events]
ErrAt(st, e) ==
    [result |-> e, Identities |-> st.Identities, Verifications |-> st.Verifications,
     events |-> st.events]

\* ---- the dispatchables ----
\* faulty variant: an update keeps the revoked flag of the record it replaces
create_or_update_identity_KeepsRevoked(origin, name, email, document_hash) ==
    LET user == ensure_signed(origin)
        bounded_name == try_from(name, MaxNameLength)
        bounded_email == try_from(email, MaxEmailLength)
        bounded_doc_hash == try_from(document_hash, MaxDocHashLength)
        identity == IdentityInfo(bounded_name.val, bounded_email.val, bounded_doc_hash.val)
    IN IF ~user.ok THEN Err(user.err)
       ELSE IF ~bounded_name.ok THEN Err("NameTooLong")
       ELSE IF ~bounded_email.ok THEN Err("EmailTooLong")
       ELSE IF ~bounded_doc_hash.ok THEN Err("DocHashTooLong")
       ELSE Ok(insert(Identities, user.val,
                      IF contains_key(Identities, user.val)
                      THEN [identity EXCEPT !.revoked = Identities[user.val].revoked]
                      ELSE identity),
               Verifications,
               deposit_event(IdentityCreated(user.val)))

\* faulty variant: the email conversion is mapped to the name's error
create_or_update_identity_EmailReportedAsName(origin, name, email, document_hash) ==
    LET user == ensure_signed(origin)
        bounded_name == try_from(name, MaxNameLength)
        bounded_email == try_from(email, MaxEmailLength)
        bounded_doc_hash == try_from(document_hash, MaxDocHashLength)
        identity == IdentityInfo(bounded_name.val, bounded_email.val, bounded_doc_hash.val)
    IN IF ~user.ok THEN Err(user.err)
       ELSE IF ~bounded_name.ok THEN Err("NameTooLong")
       ELSE IF ~bounded_email.ok THEN Err("NameTooLong")
       ELSE IF ~bounded_doc_hash.ok THEN Err("DocHashTooLong")
       ELSE Ok(insert(Identities, user.val, identity),
               Verifications,
               deposit_event(IdentityCreated(user.val)))

\* faulty variant: the email is converted before the name
create_or_update_identity_ChecksEmailFirst(origin, name, email, document_hash) ==
    LET user == ensure_signed(origin)
        bounded_name == try_from(name, MaxNameLength)
        bounded_email == try_from(email, MaxEmailLength)
        bounded_doc_hash == try_from(document_hash, MaxDocHashLength)
        identity == IdentityInfo(bounded_name.val, bounded_email.val, bounded_doc_hash.val)
    IN IF ~user.ok THEN Err(user.err)
       ELSE IF ~bounded_email.ok THEN Err("EmailTooLong")
       ELSE IF ~bounded_name.ok THEN Err("NameTooLong")
       ELSE IF ~bounded_doc_hash.ok THEN Err("DocHashTooLong")
       ELSE Ok(insert(Identities, user.val, identity),
               Verifications,
               deposit_event(IdentityCreated(user.val)))

\* lib.rs 116-143
create_or_update_identity(origin, name, email, document_hash) ==
    LET user == ensure_signed(origin)
        bounded_name == try_from(name, MaxNameLength)
        bounded_email == try_from(email, MaxEmailLength)
        bounded_doc_hash == try_from(document_hash, MaxDocHashLength)
        identity == IdentityInfo(bounded_name.val, bounded_email.val, bounded_doc_hash.val)
    IN IF ~user.ok THEN Err(user.err)
       ELSE IF ~bounded_name.ok THEN Err("NameTooLong")
       ELSE IF ~bounded_email.ok THEN Err("EmailTooLong")
       ELSE IF ~bounded_doc_hash.ok THEN Err("DocHashTooLong")
       ELSE Ok(insert(Identities, user.val, identity),
               Verifications,
               deposit_event(IdentityCreated(user.val)))

\* faulty variant: the event is deposited before the duplicate check returns
verify_identity_EventBeforeCheck(origin, target) ==
    LET validator == ensure_signed(origin)
    IN IF ~validator.ok THEN Err(validator.err)
       ELSE IF ~contains_key(Identities, target) THEN Err("IdentityNotFound")
       ELSE IF contains_key(Verifications, <<validator.val, target>>)
            THEN [Err("AlreadyVerified") EXCEPT
                    !.events = deposit_event(IdentityVerified(validator.val, target))]
       ELSE Ok(Identities,
               insert(Verifications, <<validator.val, target>>, TRUE),
               deposit_event(IdentityVerified(validator.val, target)))

\* faulty variant: the AlreadyVerified check is missing
verify_identity_NoDuplicateCheck(origin, target) ==
    LET validator == ensure_signed(origin)
    IN IF ~validator.ok THEN Err(validator.err)
       ELSE IF ~contains_key(Identities, target) THEN Err("IdentityNotFound")
       ELSE Ok(Identities,
               insert(Verifications, <<validator.val, target>>, TRUE),
               deposit_event(IdentityVerified(validator.val, target)))

\* faulty variant: the IdentityNotFound check is missing
verify_identity_NoExistenceCheck(origin, target) ==
    LET validator == ensure_signed(origin)
    IN IF ~validator.ok THEN Err(validator.err)
       ELSE IF contains_key(Verifications, <<validator.val, target>>) THEN Err("AlreadyVerified")
       ELSE Ok(Identities,
               insert(Verifications, <<validator.val, target>>, TRUE),
               deposit_event(IdentityVerified(validator.val, target)))

\* faulty variant: the existence check looks up the validator, not the target
verify_identity_ChecksValidator(origin, target) ==
    LET validator == ensure_signed(origin)
    IN IF ~validator.ok THEN Err(validator.err)
       ELSE IF ~contains_key(Identities, validator.val) THEN Err("IdentityNotFound")
       ELSE IF contains_key(Verifications, <<validator.val, target>>) THEN Err("AlreadyVerified")
       ELSE Ok(Identities,
               insert(Verifications, <<validator.val, target>>, TRUE),
               deposit_event(IdentityVerified(validator.val, target)))

\* faulty variant: an account may not verify itself
verify_identity_RejectsSelf(origin, target) ==
    LET validator == ensure_signed(origin)
    IN IF ~validator.ok THEN Err(validator.err)
       ELSE IF validator.val = target THEN Err("NotAuthorized")
       ELSE IF ~contains_key(Identities, target) THEN Err("IdentityNotFound")
       ELSE IF contains_key(Verifications, <<validator.val, target>>) THEN Err("AlreadyVerified")
       ELSE Ok(Identities,
               insert(Verifications, <<validator.val, target>>, TRUE),
               deposit_event(IdentityVerified(validator.val, target)))

\* faulty variant: the verification is stored under (target, validator)
verify_identity_KeysSwapped(origin, target) ==
    LET validator == ensure_signed(origin)
    IN IF ~validator.ok THEN Err(validator.err)
       ELSE IF ~contains_key(Identities, target) THEN Err("IdentityNotFound")
       ELSE IF contains_key(Verifications, <<validator.val, target>>) THEN Err("AlreadyVerified")
       ELSE Ok(Identities,
               insert(Verifications, <<target, validator.val>>, TRUE),
               deposit_event(IdentityVerified(validator.val, target)))

\* faulty variant: the event carries (target, validator)
verify_identity_EventArgsSwapped(origin, target) ==
    LET validator == ensure_signed(origin)
    IN IF ~validator.ok THEN Err(validator.err)
       ELSE IF ~contains_key(Identities, target) THEN Err("IdentityNotFound")
       ELSE IF contains_key(Verifications, <<validator.val, target>>) THEN Err("AlreadyVerified")
       ELSE Ok(Identities,
               insert(Verifications, <<validator.val, target>>, TRUE),
               deposit_event(IdentityVerified(target, validator.val)))

\* faulty variant: a revoked identity cannot be verified
verify_identity_at_RejectsRevoked(st, origin, target) ==
    LET validator == ensure_signed(origin)
    IN IF ~validator.ok THEN ErrAt(st, validator.err)
       ELSE IF ~contains_key(st.Identities, target) THEN ErrAt(st, "IdentityNotFound")
       ELSE IF st.Identities[target].revoked THEN ErrAt(st, "IdentityNotFound")
       ELSE IF contains_key(st.Verifications, <<validator.val, target>>)
            THEN ErrAt(st, "AlreadyVerified")
       ELSE Ok(st.Identities,
               insert(st.Verifications, <<validator.val, target>>, TRUE),
               Append(st.events, IdentityVerified(validator.val, target)))

\* lib.rs 145-161, dispatched on the storage st
verify_identity_at(st, origin, target) ==
    LET validator == ensure_signed(origin)
    IN IF ~validator.ok THEN ErrAt(st, validator.err)
       ELSE IF ~contains_key(st.Identities, target) THEN ErrAt(st, "IdentityNotFound")
       ELSE IF contains_key(st.Verifications, <<validator.val, target>>)
            THEN ErrAt(st, "AlreadyVerified")
       ELSE Ok(st.Identities,
               insert(st.Verifications, <<validator.val, target>>, TRUE),
               Append(st.events, IdentityVerified(validator.val, target)))

\* lib.rs 145-161, dispatched on the current storage
verify_identity(origin, target) == verify_identity_at(Storage, origin, target)

\* faulty variant: revoking without a record is an error
revoke_identity_ErrWhenAbsent(origin) ==
    LET user == ensure_signed(origin)
    IN IF ~user.ok THEN Err(user.err)
       ELSE IF ~contains_key(Identities, user.val) THEN Err("IdentityNotFound")
       ELSE Ok(mutate(Identities, user.val, revoke_closure(get(Identities, user.val))),
               Verifications,
               deposit_event(IdentityRevoked(user.val)))

\* faulty variant: revoking also drops the verifications of the revoked account
revoke_identity_ClearsVerifications(origin) ==
    LET user == ensure_signed(origin)
    IN IF ~user.ok THEN Err(user.err)
       ELSE Ok(mutate(Identities, user.val, revoke_closure(get(Identities, user.val))),
               [pair \in {p \in DOMAIN Verifications : p[2] # user.val} |-> Verifications[pair]],
               deposit_event(IdentityRevoked(user.val)))

\* lib.rs 163-173, dispatched on the storage st
revoke_identity_at(st, origin) ==
    LET user == ensure_signed(origin)
    IN IF ~user.ok THEN ErrAt(st, user.err)
       ELSE Ok(mutate(st.Identities, user.val, revoke_closure(get(st.Identities, user.val))),
               st.Verifications,
               Append(st.events, IdentityRevoked(user.val)))

\* lib.rs 163-173, dispatched on the current storage
revoke_identity(origin) == revoke_identity_at(Storage, origin)

\* ---- the system ----
\* genesis: both maps and the event log are empty
Init == /\ Identities = <<>>
        /\ Verifications = <<>>
        /\ events = <<>>
        /\ result = "Ok"

\* one dispatch: the outcome of the call becomes the state
CreateOrUpdateIdentity ==
    \E origin \in Origins, args \in CreateArgs :
        \E outcome \in {create_or_update_identity(origin, args[1], args[2], args[3])} :
           /\ Len(outcome.events) <= MaxEvents
           /\ Identities' = outcome.Identities
           /\ Verifications' = outcome.Verifications
           /\ events' = outcome.events
           /\ result' = outcome.result

VerifyIdentity ==
    \E origin \in Origins, target \in Accounts :
        \E outcome \in {verify_identity(origin, target)} :
           /\ Len(outcome.events) <= MaxEvents
           /\ Identities' = outcome.Identities
           /\ Verifications' = outcome.Verifications
           /\ events' = outcome.events
           /\ result' = outcome.result

RevokeIdentity ==
    \E origin \in Origins :
        \E outcome \in {revoke_identity(origin)} :
           /\ Len(outcome.events) <= MaxEvents
           /\ Identities' = outcome.Identities
           /\ Verifications' = outcome.Verifications
           /\ events' = outcome.events
           /\ result' = outcome.result

Next == CreateOrUpdateIdentity \/ VerifyIdentity \/ RevokeIdentity

Spec == Init /\ [][Next]_vars

\* ---- vocabulary of the properties ----
WithinLimits(n, e, d) == /\ Len(n) <= MaxNameLength
                         /\ Len(e) <= MaxEmailLength
                         /\ Len(d) <= MaxDocHashLength
EmittedIn(evs, ev) == \E i \in 1..Len(evs) : evs[i] = ev
Emitted(ev) == EmittedIn(events, ev)
Count(evs, ev) == Cardinality({i \in 1..Len(evs) : evs[i] = ev})
\* the record of maximal field lengths
FullRecord(revoked) == [name |-> SubSeq(SampleName, 1, MaxNameLength),
                        email |-> SubSeq(SampleEmail, 1, MaxEmailLength),
                        document_hash |-> SubSeq(SampleDocHash, 1, MaxDocHashLength),
                        revoked |-> revoked]
\* every call an account or Root can dispatch, as its outcome in the current state
CreateOutcomes == {create_or_update_identity(o, args[1], args[2], args[3]) :
                     o \in Origins, args \in CreateArgs}
VerifyOutcomes == {verify_identity(o, t) : o \in Origins, t \in Accounts}
RevokeOutcomes == {revoke_identity(o) : o \in Origins}
\* the last event of a non-empty log
Last(evs) == evs[Len(evs)]
\* Identities[a] is the same in both maps (absent in both, or the same record)
SameEntry(ids1, ids2, a) == get(ids1, a) = get(ids2, a)

\* C1: for every account a, reachable state and name n, email e, document
\* hash d within their limits, create_or_update_identity(a, n, e, d) returns
\* Ok and leaves Identities[a] = {n, e, d, revoked: false}, also when the
\* record was revoked before.
C1_CreateStoresExactRecord ==
    \A a \in Accounts, args \in CreateArgs :
        WithinLimits(args[1], args[2], args[3]) =>
            LET outcome == create_or_update_identity(Signed(a), args[1], args[2], args[3])
            IN /\ outcome.result = "Ok"
               /\ a \in DOMAIN outcome.Identities
               /\ outcome.Identities[a] = [name |-> args[1], email |-> args[2],
                                           document_hash |-> args[3], revoked |-> FALSE]

\* C1 witness: alice's revoked record has just been replaced by a successful
\* create_or_update_identity with fields of maximal length
C1_Witness ==
    /\ events = <<IdentityCreated("alice"), IdentityRevoked("alice"), IdentityCreated("alice")>>
    /\ result = "Ok"
    /\ Identities["alice"] = FullRecord(FALSE)

\* C2: a dispatch of any of the three calls that returns an error leaves
\* Identities, Verifications and the event log exactly as they were.
C2_FailureHasNoEffect ==
    \A outcome \in CreateOutcomes \cup VerifyOutcomes \cup RevokeOutcomes :
        outcome.result # "Ok" => /\ outcome.Identities = Identities
                                 /\ outcome.Verifications = Verifications
                                 /\ outcome.events = events

\* C2 witness: a verify_identity has failed on a registry that holds a
\* verification, and the log still holds only the two earlier events
C2_Witness ==
    /\ result = "AlreadyVerified"
    /\ events = <<IdentityCreated("alice"), IdentityVerified("bob", "alice")>>
    /\ DOMAIN Verifications = {<<"bob", "alice">>}

\* C3: once verify_identity(v, o) has succeeded, the pair stays recorded
\* whatever revoke or create calls follow, every further verify_identity(v, o)
\* returns AlreadyVerified and leaves Verifications untouched, and the log
\* holds at most one IdentityVerified(v, o).
C3_NoSecondVerification ==
    \A v \in Accounts, o \in Accounts :
        LET outcome == verify_identity(Signed(v), o)
        IN /\ outcome.result = "Ok" => /\ <<v, o>> \in DOMAIN outcome.Verifications
                                       /\ EmittedIn(outcome.events, IdentityVerified(v, o))
           /\ Emitted(IdentityVerified(v, o)) => <<v, o>> \in DOMAIN Verifications
           /\ <<v, o>> \in DOMAIN Verifications =>
                  /\ outcome.result = "AlreadyVerified"
                  /\ outcome.Verifications = Verifications
           /\ Count(events, IdentityVerified(v, o)) <= 1
           /\ Count(outcome.events, IdentityVerified(v, o)) <= 1

\* C3 witness: bob verified alice, alice revoked, and bob's second
\* verify_identity(alice) has just failed
C3_Witness ==
    /\ events = <<IdentityCreated("alice"), IdentityVerified("bob", "alice"),
                  IdentityRevoked("alice")>>
    /\ result = "AlreadyVerified"
    /\ Verifications[<<"bob", "alice">>] = TRUE

\* C4: when Identities[o] is absent, verify_identity(v, o) returns
\* IdentityNotFound, Verifications[v][o] stays absent and no
\* IdentityVerified(v, o) is in the log.
C4_VerifyAbsentTarget ==
    \A v \in Accounts, o \in Accounts :
        ~contains_key(Identities, o) =>
            LET outcome == verify_identity(Signed(v), o)
            IN /\ outcome.result = "IdentityNotFound"
               /\ <<v, o>> \notin DOMAIN outcome.Verifications
               /\ ~EmittedIn(outcome.events, IdentityVerified(v, o))

\* C4 witness: alice has a record, bob has none, and a verify_identity has
\* just failed with IdentityNotFound
C4_Witness ==
    /\ result = "IdentityNotFound"
    /\ DOMAIN Identities = {"alice"}
    /\ Verifications = <<>>

\* C5: an over-long name gives NameTooLong; a fitting name with an over-long
\* email gives EmailTooLong; fitting name and email with an over-long document
\* hash give DocHashTooLong; in each case Identities[a] is left as it was.
C5_FieldSpecificError ==
    \A a \in Accounts, args \in CreateArgs :
        LET outcome == create_or_update_identity(Signed(a), args[1], args[2], args[3])
            nameFits == Len(args[1]) <= MaxNameLength
            emailFits == Len(args[2]) <= MaxEmailLength
            docFits == Len(args[3]) <= MaxDocHashLength
        IN /\ ~nameFits => outcome.result = "NameTooLong"
           /\ (nameFits /\ ~emailFits) => outcome.result = "EmailTooLong"
           /\ (nameFits /\ emailFits /\ ~docFits) => outcome.result = "DocHashTooLong"
           /\ ~(nameFits /\ emailFits /\ docFits) => SameEntry(outcome.Identities, Identities, a)

\* C5 witness: both accounts hold a record and a create_or_update_identity
\* has just been rejected for its email
C5_Witness ==
    /\ result = "EmailTooLong"
    /\ DOMAIN Identities = Accounts
    /\ Identities["alice"] = FullRecord(FALSE)

\* C6: every stored identity record has name, email and document hash within
\* MaxNameLength, MaxEmailLength and MaxDocHashLength.
C6_StoredFieldsBounded ==
    \A a \in DOMAIN Identities :
        WithinLimits(Identities[a].name, Identities[a].email, Identities[a].document_hash)

\* C6 witness: a record whose three fields are exactly at their limits is
\* stored, after a create_or_update_identity with an over-long field failed
C6_Witness ==
    /\ contains_key(Identities, "bob")
    /\ Len(Identities["bob"].name) = MaxNameLength
    /\ Len(Identities["bob"].email) = MaxEmailLength
    /\ Len(Identities["bob"].document_hash) = MaxDocHashLength
    /\ result = "DocHashTooLong"

\* C7: whenever Verifications[v][a] is present, Identities[a] is present.
C7_VerifiedImpliesIdentity ==
    \A pair \in DOMAIN Verifications : contains_key(Identities, pair[2])

\* C7 witness: bob, who has no record himself, has verified alice, and alice
\* has since revoked her identity
C7_Witness ==
    /\ DOMAIN Verifications = {<<"bob", "alice">>}
    /\ DOMAIN Identities = {"alice"}
    /\ Identities["alice"].revoked
    /\ result = "Ok"

\* C8: Identities[a] is present exactly when IdentityCreated(a) has been
\* emitted, i.e. when a itself completed a create_or_update_identity; no
\* create by another origin, no verify_identity and no revoke_identity brings
\* Identities[a] into existence or emits IdentityCreated(a).
C8_OnlyOwnCreateMakesIdentity ==
    \A a \in Accounts :
        /\ contains_key(Identities, a) <=> Emitted(IdentityCreated(a))
        /\ \A o \in Origins \ {Signed(a)}, args \in CreateArgs :
               LET outcome == create_or_update_identity(o, args[1], args[2], args[3])
               IN /\ SameEntry(outcome.Identities, Identities, a)
                  /\ Count(outcome.events, IdentityCreated(a)) = Count(events, IdentityCreated(a))
        /\ \A outcome \in VerifyOutcomes \cup RevokeOutcomes :
               /\ contains_key(outcome.Identities, a) <=> contains_key(Identities, a)
               /\ Count(outcome.events, IdentityCreated(a)) = Count(events, IdentityCreated(a))
        /\ \A args \in CreateArgs :
               LET outcome == create_or_update_identity(Signed(a), args[1], args[2], args[3])
               IN outcome.result = "Ok" => /\ contains_key(outcome.Identities, a)
                                           /\ Last(outcome.events) = IdentityCreated(a)

\* C8 witness: alice created her identity; bob, who never did, verified her
\* and called revoke_identity, and still has no record
C8_Witness ==
    /\ events = <<IdentityCreated("alice"), IdentityVerified("bob", "alice"),
                  IdentityRevoked("bob")>>
    /\ DOMAIN Identities = {"alice"}
    /\ result = "Ok"

\* C9: when Identities[a] exists, active or revoked, revoke_identity(a)
\* returns Ok and leaves Identities[a] with revoked = true and name, email and
\* document_hash as before.
C9_RevokeSetsFlagOnly ==
    \A a \in Accounts :
        contains_key(Identities, a) =>
            LET outcome == revoke_identity(Signed(a))
            IN /\ outcome.result = "Ok"
               /\ contains_key(outcome.Identities, a)
               /\ outcome.Identities[a] = [Identities[a] EXCEPT !.revoked = TRUE]

\* C9 witness: alice revoked her record of maximal fields twice in a row
C9_Witness ==
    /\ events = <<IdentityCreated("alice"), IdentityRevoked("alice"), IdentityRevoked("alice")>>
    /\ result = "Ok"
    /\ Identities["alice"] = FullRecord(TRUE)

\* C10: when Identities[a] is absent, revoke_identity(a) returns Ok, emits
\* IdentityRevoked(a) and leaves Identities[a] absent.
C10_RevokeAbsent ==
    \A a \in Accounts :
        ~contains_key(Identities, a) =>
            LET outcome == revoke_identity(Signed(a))
            IN /\ outcome.result = "Ok"
               /\ outcome.events = Append(events, IdentityRevoked(a))
               /\ ~contains_key(outcome.Identities, a)

\* C10 witness: bob called revoke_identity without ever creating an identity
C10_Witness ==
    /\ events = <<IdentityRevoked("bob")>>
    /\ result = "Ok"
    /\ Identities = <<>>

\* Absent, Active or Revoked: the state of account a's identity in a map
Status(ids, a) == IF ~contains_key(ids, a) THEN "Absent"
                  ELSE IF ids[a].revoked THEN "Revoked" ELSE "Active"

\* C11: the verification relation only grows: an entry that is present stays
\* present with value true across every step (revoke_identity and
\* create_or_update_identity by the owner included), and every entry that is
\* present holds true.
C11_VerificationsOnlyGrow ==
    [][/\ \A pair \in DOMAIN Verifications :
              pair \in DOMAIN Verifications' /\ Verifications'[pair] = TRUE
       /\ \A pair \in DOMAIN Verifications' : Verifications'[pair] = TRUE]_vars

\* C11 witness: bob's verification of alice is still recorded after alice
\* replaced her identity
C11_Witness ==
    /\ events = <<IdentityCreated("alice"), IdentityVerified("bob", "alice"),
                  IdentityCreated("alice")>>
    /\ result = "Ok"
    /\ Verifications = [pair \in {<<"bob", "alice">>} |-> TRUE]

\* C12: per account a, a successful create_or_update_identity by a leads to
\* Active from Absent, Active or Revoked; a revoke_identity by a leads from
\* Active or Revoked to Revoked and leaves Absent at Absent; every other
\* dispatch leaves a's record as it is.  No dispatch leads back to Absent or
\* from Absent to Revoked.
C12_AccountStateMachine ==
    \A a \in Accounts :
        /\ \A o \in Origins, args \in CreateArgs :
               LET outcome == create_or_update_identity(o, args[1], args[2], args[3])
               IN IF o = Signed(a) /\ outcome.result = "Ok"
                  THEN Status(outcome.Identities, a) = "Active"
                  ELSE SameEntry(outcome.Identities, Identities, a)
        /\ \A outcome \in VerifyOutcomes : SameEntry(outcome.Identities, Identities, a)
        /\ \A o \in Origins :
               LET outcome == revoke_identity(o)
               IN IF o = Signed(a) /\ outcome.result = "Ok"
                  THEN Status(outcome.Identities, a) =
                           IF Status(Identities, a) = "Absent" THEN "Absent" ELSE "Revoked"
                  ELSE SameEntry(outcome.Identities, Identities, a)

\* C12 witness: alice went Absent -> Absent (revoke), Absent -> Active
\* (create), Active -> Revoked (revoke)
C12_Witness ==
    /\ events = <<IdentityRevoked("alice"), IdentityCreated("alice"), IdentityRevoked("alice")>>
    /\ result = "Ok"
    /\ Status(Identities, "alice") = "Revoked"
    /\ Status(Identities, "bob") = "Absent"

\* C13: verify_identity(caller, target) returns Ok exactly when
\* Identities[target] is present and Verifications[caller][target] is absent,
\* also for a revoked target and for caller = target, and then
\* Verifications[caller][target] = true.
C13_VerifySucceedsExactlyWhen ==
    \A c \in Accounts, t \in Accounts :
        LET outcome == verify_identity(Signed(c), t)
        IN /\ outcome.result = "Ok" <=>
                  (contains_key(Identities, t) /\ ~contains_key(Verifications, <<c, t>>))
           /\ outcome.result = "Ok" =>
                  /\ contains_key(outcome.Verifications, <<c, t>>)
                  /\ outcome.Verifications[<<c, t>>] = TRUE

\* C13 witness: alice has just verified her own, revoked, identity
C13_Witness ==
    /\ events = <<IdentityCreated("alice"), IdentityRevoked("alice"),
                  IdentityVerified("alice", "alice")>>
    /\ result = "Ok"
    /\ Identities["alice"].revoked
    /\ Verifications[<<"alice", "alice">>] = TRUE

\* C14: create_or_update_identity and revoke_identity by c leave Identities[b]
\* for every b # c and all of Verifications unchanged; verify_identity(c, t)
\* leaves all of Identities and every Verifications[v][o] with (v, o) # (c, t)
\* unchanged.
C14_CallerWritesOwnKeysOnly ==
    \A c \in Accounts :
        /\ \A args \in CreateArgs :
               LET outcome == create_or_update_identity(Signed(c), args[1], args[2], args[3])
               IN /\ \A b \in Accounts \ {c} : SameEntry(outcome.Identities, Identities, b)
                  /\ outcome.Verifications = Verifications
        /\ LET outcome == revoke_identity(Signed(c))
           IN /\ \A b \in Accounts \ {c} : SameEntry(outcome.Identities, Identities, b)
              /\ outcome.Verifications = Verifications
        /\ \A t \in Accounts :
               LET outcome == verify_identity(Signed(c), t)
               IN /\ outcome.Identities = Identities
                  /\ \A pair \in (Accounts \X Accounts) \ {<<c, t>>} :
                         get(outcome.Verifications, pair) = get(Verifications, pair)

\* C14 witness: alice and bob hold different records and alice has just
\* verified bob
C14_Witness ==
    /\ events = <<IdentityCreated("alice"), IdentityCreated("bob"),
                  IdentityVerified("alice", "bob")>>
    /\ result = "Ok"
    /\ Identities["alice"] = FullRecord(FALSE)
    /\ Identities["bob"] = IdentityInfo(<<>>, <<>>, <<>>)
    /\ DOMAIN Verifications = {<<"alice", "bob">>}

\* C15: with more than one field over its limit only the first violation in
\* the order name, email, document hash is reported: name and email too long
\* give NameTooLong; email and document hash too long with a fitting name
\* give EmailTooLong.
C15_FirstViolationReported ==
    \A a \in Accounts, args \in CreateArgs :
        LET outcome == create_or_update_identity(Signed(a), args[1], args[2], args[3])
            nameLong == Len(args[1]) > MaxNameLength
            emailLong == Len(args[2]) > MaxEmailLength
            docLong == Len(args[3]) > MaxDocHashLength
        IN /\ (nameLong /\ emailLong) => outcome.result = "NameTooLong"
           /\ (nameLong /\ docLong) => outcome.result = "NameTooLong"
           /\ (~nameLong /\ emailLong /\ docLong) => outcome.result = "EmailTooLong"

\* C15 witness: on a registry holding alice's record, a
\* create_or_update_identity has just been rejected for its name
C15_Witness ==
    /\ result = "NameTooLong"
    /\ events = <<IdentityCreated("alice")>>
    /\ Identities["alice"] = FullRecord(FALSE)

\* C16: create_or_update_identity returns Ok exactly when all three lengths
\* are within their limits; fields of exactly the maximal length and empty
\* fields are stored as given, a field one byte longer is rejected, and a
\* rejected input stores nothing (no truncated record).
C16_AcceptedIffWithinLimits ==
    \A a \in Accounts, args \in CreateArgs :
        LET outcome == create_or_update_identity(Signed(a), args[1], args[2], args[3])
        IN /\ outcome.result = "Ok" <=> WithinLimits(args[1], args[2], args[3])
           /\ outcome.result = "Ok" =>
                  /\ contains_key(outcome.Identities, a)
                  /\ outcome.Identities[a].name = args[1]
                  /\ outcome.Identities[a].email = args[2]
                  /\ outcome.Identities[a].document_hash = args[3]
           /\ outcome.result # "Ok" =>
                  /\ outcome.result \in {"NameTooLong", "EmailTooLong", "DocHashTooLong"}
                  /\ SameEntry(outcome.Identities, Identities, a)

\* C16 witness: a record of empty fields and a record of maximal fields are
\* stored, and an input with an over-long document hash has just been rejected
C16_Witness ==
    /\ events = <<IdentityCreated("alice"), IdentityCreated("bob")>>
    /\ Identities["alice"] = IdentityInfo(<<>>, <<>>, <<>>)
    /\ Identities["bob"] = FullRecord(FALSE)
    /\ result = "DocHashTooLong"

\* the pairs (v, o) for which IdentityVerified(v, o) is in a log
VerifiedPairs(evs) == {p \in Accounts \X Accounts : EmittedIn(evs, IdentityVerified(p[1], p[2]))}
\* the IdentityVerified events of a log, in order
VerifiedEvents(evs) == SelectSeq(evs, LAMBDA ev : ev.event = "IdentityVerified")

\* C17: the pairs present in Verifications are exactly the pairs for which
\* IdentityVerified(v, o) has been emitted; a successful
\* verify_identity(caller, target) appends exactly one
\* IdentityVerified(caller, target), and no other dispatch adds such an event.
C17_VerifiedEventsMatchRelation ==
    /\ DOMAIN Verifications = VerifiedPairs(events)
    /\ \A c \in Accounts, t \in Accounts :
           LET outcome == verify_identity(Signed(c), t)
           IN IF outcome.result = "Ok"
              THEN outcome.events = Append(events, IdentityVerified(c, t))
              ELSE outcome.events = events
    /\ \A outcome \in CreateOutcomes \cup RevokeOutcomes :
           VerifiedEvents(outcome.events) = VerifiedEvents(events)

\* C17 witness: alice has just verified bob; the relation and the log hold
\* the pair (alice, bob) and not (bob, alice)
C17_Witness ==
    /\ events = <<IdentityCreated("bob"), IdentityVerified("alice", "bob")>>
    /\ result = "Ok"
    /\ DOMAIN Verifications = {<<"alice", "bob">>}

\* C18: revoke_identity is idempotent on storage: revoke_identity(a)
\* dispatched twice leaves Identities and Verifications as one dispatch does;
\* only the log differs, by one IdentityRevoked(a) per call.
C18_RevokeIdempotent ==
    \A a \in Accounts :
        LET once == revoke_identity(Signed(a))
            twice == revoke_identity_at(once, Signed(a))
        IN /\ once.result = "Ok" /\ twice.result = "Ok"
           /\ twice.Identities = once.Identities
           /\ twice.Verifications = once.Verifications
           /\ once.events = Append(events, IdentityRevoked(a))
           /\ twice.events = Append(once.events, IdentityRevoked(a))

\* C18 witness: bob has revoked his record of empty fields twice in a row
C18_Witness ==
    /\ events = <<IdentityCreated("bob"), IdentityRevoked("bob"), IdentityRevoked("bob")>>
    /\ result = "Ok"
    /\ Identities["bob"] = [IdentityInfo(<<>>, <<>>, <<>>) EXCEPT !.revoked = TRUE]

\* C19: revoke_identity and verify_identity commute: from every reachable
\* state, revoke_identity(a) then verify_identity(v, o) gives each call the
\* same result and leaves the same Identities and Verifications as
\* verify_identity(v, o) then revoke_identity(a).
C19_RevokeVerifyCommute ==
    \A a \in Accounts, v \in Accounts, o \in Accounts :
        LET revokeFirst == revoke_identity(Signed(a))
            thenVerify == verify_identity_at(revokeFirst, Signed(v), o)
            verifyFirst == verify_identity(Signed(v), o)
            thenRevoke == revoke_identity_at(verifyFirst, Signed(a))
        IN /\ revokeFirst.result = thenRevoke.result
           /\ thenVerify.result = verifyFirst.result
           /\ thenVerify.Identities = thenRevoke.Identities
           /\ thenVerify.Verifications = thenRevoke.Verifications

\* C19 witness: alice revoked her identity and bob then verified it
C19_Witness ==
    /\ events = <<IdentityCreated("alice"), IdentityRevoked("alice"),
                  IdentityVerified("bob", "alice")>>
    /\ result = "Ok"
    /\ Identities["alice"] = FullRecord(TRUE)
    /\ DOMAIN Verifications = {<<"bob", "alice">>}
====
